---- MODULE Spec2Model ----
(***************************************************************************)
(* A model of euets-scraper: the dataset record parser and the page        *)
(* aggregators (scraper.py), the download-URL resolver, the Dataset facade  *)
(* with its memoized URL/bytes, and the archive accessor (archive.py).      *)
(*                                                                         *)
(* Text is modelled as a sequence of one-character strings wherever the     *)
(* code takes it apart (split, rsplit, rstrip, fnmatch, lower); labels and  *)
(* URLs the code only compares are TLA+ strings; messages are sequences of  *)
(* words so that "the message mentions X" is a sub-sequence test.           *)
(***************************************************************************)
EXTENDS Integers, Sequences, FiniteSets, TLC

VARIABLES
    frag, outcome,                    \* _parse_accordion: input fragment, its outcome
    doc, aggResult,                   \* _parse_accordions: input document, its outcome
    response,                         \* fetch_datasets_simple: the status of the response
    html, resolved,                   \* _resolve_download_url_from_html: input, outcome
    \* fetch_datasets_full: where the coroutine is, the menu items not yet
    \* clicked, its locals seen_ids, datasets and errors, and what it returned
    fpc, tabsLeft, seen_ids, datasets, errors, fullResult,
    \* history: per identifier, how often it was met and how often parsed, and
    \* the identifiers in the order in which they were first met
    met, parsed, order,
    blob, listed,                     \* list_files_from_bytes: archive bytes, outcome
    xargs, xresult,                   \* extract_files_from_bytes: arguments, outcome
    disk, before,                     \* the file system now and before the operation
    \* one Dataset: its fields, its two cache slots, the calls of its methods
    \* in progress or finished (per caller), and how many were started
    dset, _cached_archive_url, _cached_archive_bytes, calls, ncalls,
    \* history: resolver and fetcher requests that succeeded, the pages asked
    \* of the resolver, the URLs returned or fetched, the bytes handed on
    resolves, fetches, pages, urls, used

parseVars == <<frag, outcome>>
aggVars == <<doc, aggResult, response>>
resolveVars == <<html, resolved>>
fullVars == <<fpc, tabsLeft, seen_ids, datasets, errors, fullResult, met, parsed, order>>
archiveVars == <<blob, listed, xargs, xresult>>
fsVars == <<disk, before>>
cacheVars == <<_cached_archive_url, _cached_archive_bytes>>
historyVars == <<resolves, fetches, pages, urls, used>>
datasetVars == <<dset, _cached_archive_url, _cached_archive_bytes, calls, ncalls,
                 resolves, fetches, pages, urls, used>>
vars == <<frag, outcome, doc, aggResult, response, html, resolved,
          fpc, tabsLeft, seen_ids, datasets, errors, fullResult, met, parsed, order,
          blob, listed, xargs, xresult, disk, before,
          dset, _cached_archive_url, _cached_archive_bytes, calls, ncalls,
          resolves, fetches, pages, urls, used>>
\* What each component leaves alone.
notParseVars == <<aggVars, resolveVars, fullVars, archiveVars, fsVars, datasetVars>>
notAggVars == <<parseVars, resolveVars, fullVars, archiveVars, fsVars, datasetVars>>
notResolveVars == <<parseVars, aggVars, fullVars, archiveVars, fsVars, datasetVars>>
notFullVars == <<parseVars, aggVars, resolveVars, archiveVars, fsVars, datasetVars>>
notArchiveVars == <<parseVars, aggVars, resolveVars, fullVars, datasetVars>>
notDatasetVars == <<parseVars, aggVars, resolveVars, fullVars, archiveVars, before>>

\* An attribute that is not there (Tag.get returns None): no str.
NoAttr == "<no attribute>"
\* Python's None where the other values are sequences (text, tuples, lists):
\* the code tests these with `if x` / `if not x`, which None and "" both fail.
None == <<>>

(***************************************************************************)
(* Text helpers                                                            *)
(***************************************************************************)
Range(s) == {s[i] : i \in 1..Len(s)}

\* needle occurs in hay as a contiguous run (Python's `needle in hay`).
Contains(hay, needle) ==
    \E i \in 0..(Len(hay) - Len(needle)) :
        \A j \in 1..Len(needle) : hay[i + j] = needle[j]

Digits == {"0", "1", "2", "3", "4", "5", "6", "7", "8", "9"}
DigitVal(c) ==
    CASE c = "0" -> 0 [] c = "1" -> 1 [] c = "2" -> 2 [] c = "3" -> 3 [] c = "4" -> 4
      [] c = "5" -> 5 [] c = "6" -> 6 [] c = "7" -> 7 [] c = "8" -> 8 [] c = "9" -> 9

\* str.strip() on a character sequence (whitespace is the blank).
RECURSIVE LStrip(_)
LStrip(s) == IF s # <<>> /\ Head(s) = " " THEN LStrip(Tail(s)) ELSE s
RECURSIVE RStrip(_)
RStrip(s) == IF s # <<>> /\ s[Len(s)] = " " THEN RStrip(SubSeq(s, 1, Len(s) - 1)) ELSE s
Strip(s) == LStrip(RStrip(s))

\* str.split(sep): the pieces between the occurrences of sep; [""] for "".
RECURSIVE Split(_, _)
Split(s, sep) ==
    IF sep \notin Range(s) THEN <<s>>
    ELSE LET i == CHOOSE k \in 1..Len(s) : s[k] = sep /\ \A j \in 1..(k - 1) : s[j] # sep
         IN  <<SubSeq(s, 1, i - 1)>> \o Split(SubSeq(s, i + 1, Len(s)), sep)

\* int(text): blanks around the digits are accepted, anything else raises
\* ValueError.  (Sign and underscore forms are outside the modelled alphabet.)
IntParses(t) == Strip(t) # <<>> /\ Range(Strip(t)) \subseteq Digits
RECURSIVE DecimalValue(_)
DecimalValue(ds) ==
    IF ds = <<>> THEN 0
    ELSE 10 * DecimalValue(SubSeq(ds, 1, Len(ds) - 1)) + DigitVal(ds[Len(ds)])
IntOf(t) == DecimalValue(Strip(t))

(***************************************************************************)
(* scraper.py: field parsers                                               *)
(***************************************************************************)
\* The one date text of the inputs that strptime("%d %b %Y") accepts.
DateText == <<"9", " ", "M", "a", "y", " ", "2", "0", "1", "9">>

_parse_date(text) ==
    IF Strip(text) = DateText THEN <<2019, 5, 9>> ELSE None

\* _parse_years as it would be if a text without a hyphen counted as a one-year
\* range ("2005" read as 2005-2005).
_parse_years_lenient(text) ==
    LET parts == Split(text, "-")
    IN  IF Len(parts) \in {1, 2} /\ \A i \in 1..Len(parts) : IntParses(parts[i])
        THEN <<IntOf(parts[1]), IntOf(parts[Len(parts)])>>
        ELSE None

\* start, end = text.split("-") raises ValueError unless there are exactly two
\* pieces; int() raises ValueError on a piece that is no integer.
_parse_years(text) ==
    LET parts == Split(text, "-")
    IN  IF Len(parts) = 2 /\ IntParses(parts[1]) /\ IntParses(parts[2])
        THEN <<IntOf(parts[1]), IntOf(parts[2])>>
        ELSE None

\* The first <strong> whose string contains the label and that has a next
\* sibling decides: the parser's value for the sibling's stripped text.
\* field is "published" or "coverage" and selects the parser.
ApplyParser(field, text) ==
    IF field = "published" THEN _parse_date(text) ELSE _parse_years(text)

RECURSIVE _extract_field(_, _, _)
_extract_field(strongs, label, field) ==
    IF strongs = <<>> THEN None
    ELSE LET strong == Head(strongs)
         IN  IF strong.string # None /\ Contains(strong.string, label)
                /\ strong.sibling # None
             THEN ApplyParser(field, Strip(strong.sibling))
             ELSE _extract_field(Tail(strongs), label, field)

PublishedLabel == <<"Published:">>
CoverageLabel == <<"Temporal", "coverage:">>
(***************************************************************************)
(* scraper.py: the dataset record parser                                   *)
(*                                                                         *)
(* A fragment (one ".accordion.ui" element) is                             *)
(*   [id, title, content]                                                  *)
(*   id      : the id attribute, or NoAttr                                 *)
(*   title   : <<>> (no .dataset-title) or <<[own, formats]>>, own the     *)
(*             title's own text ("" if none), formats <<>> (no .formats)   *)
(*             or <<[mark, label]>>, mark the .formats' own text, label    *)
(*             <<>> (no .dh-label) or <<text>>                             *)
(*   content : <<>> (no .content) or <<[strongs, anchors]>>, strongs a     *)
(*             list of [string, sibling], anchors a list of [label, href]  *)
(***************************************************************************)
Some(x) == <<x>>
The(opt) == opt[1]

ValueError(msg) == [kind |-> "ValueError", message |-> msg]
StopIteration == [kind |-> "StopIteration"]
Returned(v) == [kind |-> "ok", value |-> v]

\* f"Missing required element: {selector}"
MissingElement(selector) == <<"Missing", "required", "element:", selector>>
MissingCoverage == <<"Missing", "required", "field:", "temporal", "coverage">>
MissingFactsheet == <<"Missing", "required", "field:", "Metadata", "Factsheet">>
\* str() of the pydantic ValidationError that AnyUrl raises (a ValueError).
InvalidUrl == <<"1", "validation", "error", "for", "AnyUrl">>

\* AnyUrl(href): a relative reference is no URL (ValidationError); a URL with
\* an empty path is normalised to end in "/".
UrlIsValid(href) == href # "/datahub/relative"
AnyUrl(href) == IF href = "https://sdi.eea.europa.eu" THEN "https://sdi.eea.europa.eu/" ELSE href

\* Python dict (insertion-ordered) as a list of [label, url] with distinct
\* labels: d[k] = v keeps k's place when k is already a key.
DictHas(d, k) == \E i \in 1..Len(d) : d[i].label = k
\* d[k] = v as it would be if a key set again moved to the end.
DictSetMovesToEnd(d, k, v) ==
    Append(SelectSeq(d, LAMBDA e : e.label # k), [label |-> k, url |-> v])
DictSet(d, k, v) ==
    IF DictHas(d, k)
    THEN [i \in 1..Len(d) |-> IF d[i].label = k THEN [label |-> k, url |-> v] ELSE d[i]]
    ELSE Append(d, [label |-> k, url |-> v])
DictGet(d, k) == LET i == CHOOSE j \in 1..Len(d) : d[j].label = k IN d[i].url
DictPop(d, k) == SelectSeq(d, LAMBDA e : e.label # k)

\* for a in content.select("a"): label = a.get_text(strip=True);
\* href = a.get("href"); if isinstance(href, str): all_links[label] = href
RECURSIVE CollectLinks(_, _)
CollectLinks(anchors, all_links) ==
    IF anchors = <<>> THEN all_links
    ELSE LET a == Head(anchors)
         IN  CollectLinks(Tail(anchors),
                          IF a.href # NoAttr THEN DictSet(all_links, a.label, a.href)
                          ELSE all_links)

\* title_span.stripped_strings: the non-blank strings below the title element,
\* in document order (its own text, then what .formats holds).
StrippedStrings(title) ==
    LET inner == IF title.formats = <<>> THEN <<>>
                 ELSE <<The(title.formats).mark>> \o The(title.formats).label
    IN  SelectSeq(<<title.own>> \o inner, LAMBDA t : t # "")

\* formats_span.get_text(): the strings below .formats.
FormatsText(formats) == <<formats.mark>> \o formats.label

_parse_accordion(accordion) ==
    LET dataset_id == IF accordion.id = NoAttr THEN "" ELSE accordion.id
    IN
    IF accordion.title = <<>> THEN ValueError(MissingElement(".dataset-title"))
    ELSE IF accordion.content = <<>> THEN ValueError(MissingElement(".content"))
    ELSE
    LET title_span == The(accordion.title)
        content == The(accordion.content)
    IN
    IF title_span.formats = <<>> THEN ValueError(MissingElement(".formats"))
    ELSE IF The(title_span.formats).label = <<>> THEN ValueError(MissingElement(".dh-label"))
    ELSE
    LET formats_span == The(title_span.formats)
        format_label == The(formats_span.label)
    IN
    \* next(title_span.stripped_strings) on a title without text
    IF StrippedStrings(title_span) = <<>> THEN StopIteration
    ELSE
    LET full_title == Head(StrippedStrings(title_span))
        format_text == format_label
        superseded == "Superseded" \in Range(FormatsText(formats_span))
        published == _extract_field(content.strongs, PublishedLabel, "published")
        coverage == _extract_field(content.strongs, CoverageLabel, "coverage")
    IN
    IF coverage = None THEN ValueError(MissingCoverage)
    ELSE
    LET all_links == CollectLinks(content.anchors, <<>>)
    IN
    IF ~DictHas(all_links, "Metadata Factsheet") THEN ValueError(MissingFactsheet)
    ELSE
    LET factsheet == DictGet(all_links, "Metadata Factsheet")
        rest == DictPop(all_links, "Metadata Factsheet")
    IN
    IF \E i \in 1..Len(rest) : ~UrlIsValid(rest[i].url) THEN ValueError(InvalidUrl)
    ELSE IF ~UrlIsValid(factsheet) THEN ValueError(InvalidUrl)
    ELSE Returned([dataset_id |-> dataset_id,
                   title |-> full_title,
                   format |-> format_text,
                   superseded |-> superseded,
                   published |-> published,
                   temporal_coverage |-> coverage,
                   factsheet |-> AnyUrl(factsheet),
                   links |-> [i \in 1..Len(rest) |->
                                 [label |-> rest[i].label, url |-> AnyUrl(rest[i].url)]]])
(***************************************************************************)
(* Inputs of the parser                                                    *)
(***************************************************************************)
MaxAnchors == 2

\* All sequences over S of length at most n.
SeqsUpTo(S, n) == UNION {[1..k -> S] : k \in 0..n}

Ids == {"1098253", "1087604"}

\* Texts found after "Temporal coverage:" (the sibling text node).
CoverageTexts == {
    <<"2", "0", "0", "5", "-", "2", "0", "2", "4">>,      \* "2005-2024"
    <<" ", "2", "0", "0", "5", " ", "-", " ", "2", "0", "2", "4", " ">>,        \* " 2005 - 2024 "
    <<"2", "0", "0", "5">>,           \* "2005"
    <<"2", "0", "0", "5", "-">>,          \* "2005-"
    <<"2", "0", "0", "5", "-", "2", "0", "2", "4", "-", "1">>,    \* "2005-2024-1"
    <<"2", "0", "x", "5", "-", "2", "0", "2", "4">>,      \* "20x5-2024"
    <<"-", "2", "0", "2", "4">>,          \* "-2024"
    <<" ">>          \* " "
}
GarbledText == <<"g", "a", "r", "b", "l", "e", "d">>

Strong(string, sibling) == [string |-> string, sibling |-> sibling]
PublishedStrongs == {Strong(PublishedLabel, t) : t \in {DateText, GarbledText}}
CoverageStrongs == {Strong(CoverageLabel, t) : t \in CoverageTexts \cup {None}}
\* The <strong> elements of a content area: none; the coverage alone; the
\* published date and the coverage; or a first coverage label (without a
\* sibling, or with an unparseable one) followed by a parseable one.
StrongSeqs ==
    {<<>>}
    \cup {<<c>> : c \in CoverageStrongs}
    \cup {<<p, c>> : p \in PublishedStrongs, c \in CoverageStrongs}
    \cup {<<Strong(CoverageLabel, t), Strong(CoverageLabel, <<"2", "0", "0", "5", "-", "2", "0", "2", "4">>)>> : t \in {None, <<"2", "0", "0", "5">>}}

Labels == {"Metadata Factsheet", "Direct download", "Data viewer"}
Hrefs == {NoAttr, "https://sdi.eea.europa.eu/dl", "https://sdi.eea.europa.eu", "/datahub/relative"}
Anchors == [label : Labels, href : Hrefs]

TitleLabels == {<<>>, <<"">>, <<"ascii (.csv, .txt, .sql)">>}
Formats == {<<>>} \cup {<<f>> : f \in [mark : {"", "Superseded"}, label : TitleLabels]}
Titles == {<<>>} \cup {<<t>> : t \in [own : {"", "EU ETS data"}, formats : Formats]}
Contents == {<<>>} \cup {<<c>> : c \in [strongs : StrongSeqs, anchors : SeqsUpTo(Anchors, MaxAnchors)]}

Fragments == [id : Ids \cup {NoAttr}, title : Titles, content : Contents]

(***************************************************************************)
(* Specification of the parser alone: one fragment, parsed once.           *)
(***************************************************************************)
NotRun == [kind |-> "NotRun"]

ParseInit == frag \in Fragments /\ outcome = NotRun
ParseAccordion ==
    /\ frag # <<>>
    /\ outcome = NotRun
    /\ outcome' = _parse_accordion(frag)
    /\ UNCHANGED <<frag, notParseVars>>
(***************************************************************************)
(* scraper.py: the simple-mode aggregator                                  *)
(* A document is the list of its ".datasets-tab .accordion.ui" fragments.  *)
(***************************************************************************)
MaxFrags == 3

ParseError(acc_id, msg) == [dataset_id |-> acc_id, message |-> msg]
ETSResult(dsets, errs) == [datasets |-> dsets, errors |-> errs]

\* The loop of _parse_accordions.  Only ValueError is caught: any other
\* exception of _parse_accordion leaves the loop and the function.
RECURSIVE ParseLoop(_, _, _)
ParseLoop(accordions, dsets, errs) ==
    IF accordions = <<>> THEN Returned(ETSResult(dsets, errs))
    ELSE LET accordion == Head(accordions)
             acc_id == accordion.id
             r == _parse_accordion(accordion)
         IN  IF acc_id = NoAttr THEN ParseLoop(Tail(accordions), dsets, errs)
             ELSE IF r.kind = "ok"
             THEN ParseLoop(Tail(accordions), Append(dsets, r.value), errs)
             ELSE IF r.kind = "ValueError"
             THEN ParseLoop(Tail(accordions), dsets,
                            Append(errs, ParseError(acc_id, r.message)))
             ELSE r

\* _parse_accordions as it would be without the test of the identifier.
RECURSIVE ParseLoopWithoutSkip(_, _, _)
ParseLoopWithoutSkip(accordions, dsets, errs) ==
    IF accordions = <<>> THEN Returned(ETSResult(dsets, errs))
    ELSE LET r == _parse_accordion(Head(accordions))
         IN  IF r.kind = "ok"
             THEN ParseLoopWithoutSkip(Tail(accordions), Append(dsets, r.value), errs)
             ELSE IF r.kind = "ValueError"
             THEN ParseLoopWithoutSkip(Tail(accordions), dsets,
                                       Append(errs, ParseError(Head(accordions).id, r.message)))
             ELSE r
_parse_accordions_without_skip(soup) == ParseLoopWithoutSkip(soup, <<>>, <<>>)

_parse_accordions(soup) == ParseLoop(soup, <<>>, <<>>)

\* response.raise_for_status()
HTTPStatusError == [kind |-> "HTTPStatusError"]

\* Fragments of each kind the parser tells apart, used to build documents.
FullTitle == <<[own |-> "EU ETS data",
               formats |-> <<[mark |-> "", label |-> <<"ascii (.csv, .txt, .sql)">>]>>]>>
EmptyTitle == <<[own |-> "", formats |-> <<[mark |-> "", label |-> <<"">>]>>]>>
FactsheetAnchor == [label |-> "Metadata Factsheet", href |-> "https://sdi.eea.europa.eu"]
DownloadAnchor == [label |-> "Direct download", href |-> "https://sdi.eea.europa.eu/dl"]
GoodStrongs == <<Strong(PublishedLabel, DateText), Strong(CoverageLabel, <<"2", "0", "0", "5", "-", "2", "0", "2", "4">>)>>
FullContent == <<[strongs |-> GoodStrongs, anchors |-> <<DownloadAnchor, FactsheetAnchor>>]>>

SampleShapes == {
    [title |-> FullTitle, content |-> FullContent],
    [title |-> FullTitle,
     content |-> <<[strongs |-> GoodStrongs, anchors |-> <<FactsheetAnchor>>]>>],
    [title |-> FullTitle,
     content |-> <<[strongs |-> <<Strong(PublishedLabel, DateText)>>,
                    anchors |-> <<DownloadAnchor, FactsheetAnchor>>]>>],
    [title |-> FullTitle,
     content |-> <<[strongs |-> GoodStrongs, anchors |-> <<DownloadAnchor>>]>>],
    [title |-> <<>>, content |-> FullContent],
    [title |-> EmptyTitle, content |-> FullContent]
}
SampleFragments ==
    {[id |-> i, title |-> sh.title, content |-> sh.content] :
        i \in Ids \cup {NoAttr}, sh \in SampleShapes}
Documents == SeqsUpTo(SampleFragments, MaxFrags)

AggInit == doc \in Documents /\ aggResult = NotRun /\ response = "none"

\* _parse_accordions(soup), called on a parsed document.
ParseAccordions ==
    /\ aggResult = NotRun
    /\ aggResult' = _parse_accordions(doc)
    /\ UNCHANGED <<doc, response, notAggVars>>

\* fetch_datasets_simple: GET the page, raise_for_status, parse the text.
FetchDatasetsSimple ==
    /\ aggResult = NotRun
    /\ \E status_ok \in BOOLEAN :
          /\ response' = IF status_ok THEN "success" ELSE "error"
          /\ aggResult' = IF status_ok THEN _parse_accordions(doc) ELSE HTTPStatusError
    /\ UNCHANGED <<doc, notAggVars>>

(***************************************************************************)
(* Claims about the parser and the simple-mode aggregator                  *)
(***************************************************************************)
Parses(f) == _parse_accordion(f).kind = "ok"
\* The fragments of a document that carry an identifier, split by whether the
\* parser returns a Dataset for them.
Identified(d) == SelectSeq(d, LAMBDA f : f.id # NoAttr)
ValidFragments(d) == SelectSeq(Identified(d), LAMBDA f : Parses(f))
InvalidFragments(d) == SelectSeq(Identified(d), LAMBDA f : ~Parses(f))
Aggregated == aggResult.kind \notin {"NotRun", "HTTPStatusError"}

\* C1: aggregating a document yields exactly one Dataset per identified
\* fragment that parses and exactly one ParseError, keyed by the fragment's
\* identifier, per identified fragment that fails to parse, each list in
\* document order; a failing fragment never aborts the pass.
C1_OnePerFragment ==
    Aggregated =>
        /\ aggResult.kind = "ok"
        /\ aggResult.value.datasets =
              [i \in 1..Len(ValidFragments(doc)) |->
                  _parse_accordion(ValidFragments(doc)[i]).value]
        /\ Len(aggResult.value.errors) = Len(InvalidFragments(doc))
        /\ \A i \in 1..Len(InvalidFragments(doc)) :
              aggResult.value.errors[i].dataset_id = InvalidFragments(doc)[i].id

\* The text of the "Temporal coverage" field of a fragment: what follows the
\* first such label that is followed by text; None when there is none.
RECURSIVE FieldText(_, _)
FieldText(strongs, label) ==
    IF strongs = <<>> THEN None
    ELSE IF Contains(Head(strongs).string, label) /\ Head(strongs).sibling # None
         THEN Head(strongs).sibling
         ELSE FieldText(Tail(strongs), label)
CoverageText(f) ==
    IF f.content = <<>> THEN None ELSE FieldText(The(f.content).strongs, CoverageLabel)
IsInteger(t) == Strip(t) # <<>> /\ \A i \in 1..Len(Strip(t)) : Strip(t)[i] \in Digits
\* Two integers with one hyphen between them.
TwoHyphenSeparatedIntegers(t) ==
    \E i \in 1..Len(t) :
        /\ t[i] = "-"
        /\ IsInteger(SubSeq(t, 1, i - 1))
        /\ IsInteger(SubSeq(t, i + 1, Len(t)))
CoverageMissing(f) ==
    CoverageText(f) = None \/ ~TwoHyphenSeparatedIntegers(CoverageText(f))
FactsheetMissing(f) ==
    \/ f.content = <<>>
    \/ \A i \in 1..Len(The(f.content).anchors) :
          \/ The(f.content).anchors[i].label # "Metadata Factsheet"
          \/ The(f.content).anchors[i].href = NoAttr

LowerWord(w) ==
    CASE w = "Missing" -> "missing" [] w = "Metadata" -> "metadata"
      [] w = "Factsheet" -> "factsheet" [] w = "AnyUrl" -> "anyurl" [] OTHER -> w
Lower(msg) == [i \in 1..Len(msg) |-> LowerWord(msg[i])]
FailsMentioning(o, words) == o.kind = "ValueError" /\ Contains(o.message, words)
FailsMentioningCI(o, words) == o.kind = "ValueError" /\ Contains(Lower(o.message), words)

\* The elements the parser selects before it reads any field are there and
\* the title has text (scraper.py lines 182-191 pass).
StructureFound(f) ==
    /\ f.title # <<>> /\ f.content # <<>>
    /\ The(f.title).formats # <<>>
    /\ The(The(f.title).formats).label # <<>>
    /\ StrippedStrings(The(f.title)) # <<>>

MaxSpans == 2

NoString == "<no string>"
NotFoundMessage ==
    <<"Could", "not", "find", "'", "Download", "all", "files", "'", "link", "on", "page">>

\* span.string == "Download all files", and the comparison as it would be if
\* it ignored the white space around the text.
SpanMatchesStripped(span) == span.string \in {"Download all files", " Download all files "}
SpanMatches(span) == span.string = "Download all files"

\* if link := span.find_parent("a"): if href := link.get("href"): both an
\* absent and an empty href are false.
SpanHref(span) ==
    IF span.anchor # <<>> /\ The(span.anchor) \notin {NoAttr, ""}
    THEN Some(The(span.anchor)) ELSE None

RECURSIVE _resolve_download_url_from_html(_)
_resolve_download_url_from_html(spans) ==
    IF spans = <<>> THEN ValueError(NotFoundMessage)
    ELSE IF SpanMatches(Head(spans)) /\ SpanHref(Head(spans)) # None
         THEN Returned(The(SpanHref(Head(spans))))
         ELSE _resolve_download_url_from_html(Tail(spans))

SpanStrings == {"Download all files", " Download all files ", "No download here", NoString}
SpanAnchors ==
    {<<>>} \cup {<<h>> : h \in {NoAttr, "", "https://sdi.eea.europa.eu/s/a/download",
                                "https://sdi.eea.europa.eu/s/b/download"}}
Spans == [string : SpanStrings, anchor : SpanAnchors]
Pages == SeqsUpTo(Spans, MaxSpans)

ResolveInit == html \in Pages /\ resolved = NotRun

ResolveFromHtml ==
    /\ resolved = NotRun
    /\ resolved' = _resolve_download_url_from_html(html)
    /\ UNCHANGED <<html, notResolveVars>>

\* A span with the exact text inside an anchor that has an href attribute.
LabelledAnchor(span) ==
    span.string = "Download all files" /\ span.anchor # <<>> /\ The(span.anchor) # NoAttr

\* C10: the resolver returns the href of an anchor that wraps a span whose text
\* is exactly "Download all files" (the first one that has a non-empty href);
\* a page without such a span in an anchor with an href gives an error whose
\* message includes "Download all files", and no URL.
C10_ResolvesLabelledAnchor ==
    resolved # NotRun =>
        /\ resolved.kind = "ok" =>
              \E i \in 1..Len(html) :
                  /\ LabelledAnchor(html[i])
                  /\ resolved.value = The(html[i].anchor)
                  /\ \A j \in 1..(i - 1) :
                        ~(LabelledAnchor(html[j]) /\ The(html[j].anchor) # "")
        /\ (\E i \in 1..Len(html) : LabelledAnchor(html[i]) /\ The(html[i].anchor) # "")
              => resolved.kind = "ok"
        /\ (\A i \in 1..Len(html) : ~LabelledAnchor(html[i])) =>
              FailsMentioning(resolved, <<"Download", "all", "files">>)

\* The page holds a near miss before the labelled anchor, and was resolved.
C10_Witness ==
    /\ resolved # NotRun /\ resolved.kind = "ok"
    /\ Len(html) = 2
    /\ html[1].string = " Download all files " /\ html[1].anchor # <<>>
    /\ LabelledAnchor(html[2])

\* No span of the page carries the label, and resolving failed.
C10_WitnessNotFound ==
    /\ resolved # NotRun /\ resolved.kind = "ValueError"
    /\ Len(html) = 2
    /\ \A i \in 1..2 : ~LabelledAnchor(html[i])
(***************************************************************************)
(* scraper.py: the full-mode aggregator (fetch_datasets_full)              *)
(* The coroutine suspends at every browser call; the step between two      *)
(* suspensions that matters is one menu item: click, settle, read the page, *)
(* parse its fragments.  The page read after a click is the browser's      *)
(* choice.                                                                 *)
(***************************************************************************)
MaxTabs == 2
MaxTabFrags == 2

\* What a coroutine turns a StopIteration raised inside it into (PEP 479).
RuntimeError == [kind |-> "RuntimeError"]
\* An error of the browser: launch, goto, wait_for_selector (timeout), click.
PlaywrightError == [kind |-> "PlaywrightError"]

\* isinstance(acc_id, str) and acc_id not in seen_ids; and the test as it
\* would be without the look-up in seen_ids.
IsNewIdNoLookup(acc_id, seen) == acc_id # NoAttr
IsNewId(acc_id, seen) == acc_id # NoAttr /\ acc_id \notin seen

Bump(f, k) == [f EXCEPT ![k] = @ + 1]

\* The inner loop over one rendered page.  st holds seen_ids, datasets,
\* errors, the history counters and the exception that left the loop, if any.
RECURSIVE TabLoop(_, _)
\* The loop as it would be if it put each new Dataset in front of the list.
TabLoopNewestFirst(accordions, st) ==
    IF accordions = <<>> THEN st
    ELSE LET accordion == Head(accordions)
             acc_id == accordion.id
             r == _parse_accordion(accordion)
             m == IF acc_id = NoAttr THEN st.met ELSE Bump(st.met, acc_id)
             o == IF acc_id = NoAttr \/ acc_id \in Range(st.order) THEN st.order
                  ELSE Append(st.order, acc_id)
         IN  IF IsNewId(acc_id, st.seen_ids) /\ r.kind = "ok"
             THEN TabLoop(Tail(accordions),
                          [st EXCEPT !.met = m, !.order = o,
                                     !.seen_ids = @ \cup {acc_id},
                                     !.parsed = Bump(@, acc_id),
                                     !.datasets = <<r.value>> \o @])
             ELSE TabLoop(Tail(accordions), [st EXCEPT !.met = m, !.order = o])

TabLoop(accordions, st) ==
    IF accordions = <<>> THEN st
    ELSE LET accordion == Head(accordions)
             acc_id == accordion.id
             r == _parse_accordion(accordion)
             m == IF acc_id = NoAttr THEN st.met ELSE Bump(st.met, acc_id)
             o == IF acc_id = NoAttr \/ acc_id \in Range(st.order) THEN st.order
                  ELSE Append(st.order, acc_id)
         IN  IF ~IsNewId(acc_id, st.seen_ids)
             THEN TabLoop(Tail(accordions), [st EXCEPT !.met = m, !.order = o])
             ELSE LET st1 == [st EXCEPT !.met = m, !.order = o,
                                        !.seen_ids = @ \cup {acc_id},
                                        !.parsed = Bump(@, acc_id)]
                  IN  IF r.kind = "ok"
                      THEN TabLoop(Tail(accordions),
                                   [st1 EXCEPT !.datasets = Append(@, r.value)])
                      ELSE IF r.kind = "ValueError"
                      THEN TabLoop(Tail(accordions),
                                   [st1 EXCEPT !.errors =
                                       Append(@, ParseError(acc_id, r.message))])
                      ELSE [st1 EXCEPT !.raised = <<RuntimeError>>]

\* Fragments a rendered page is built from: parses (with and without a
\* download link), fails with ValueError,
\* fails with StopIteration; each under either identifier or none.
TabShapes == {
    [title |-> FullTitle, content |-> FullContent],
    [title |-> FullTitle,
     content |-> <<[strongs |-> GoodStrongs, anchors |-> <<FactsheetAnchor>>]>>],
    [title |-> FullTitle,
     content |-> <<[strongs |-> <<Strong(PublishedLabel, DateText)>>,
                    anchors |-> <<DownloadAnchor, FactsheetAnchor>>]>>],
    [title |-> EmptyTitle, content |-> FullContent]
}
TabFragments ==
    {[id |-> i, title |-> sh.title, content |-> sh.content] :
        i \in Ids \cup {NoAttr}, sh \in TabShapes}
TabPages == SeqsUpTo(TabFragments, MaxTabFrags)

FullIdle ==
    /\ fpc = "idle" /\ tabsLeft = 0 /\ seen_ids = {} /\ datasets = <<>> /\ errors = <<>>
    /\ fullResult = NotRun
    /\ met = [i \in Ids |-> 0] /\ parsed = [i \in Ids |-> 0] /\ order = <<>>

FullInit ==
    /\ fpc = "start" /\ tabsLeft = 0 /\ seen_ids = {} /\ datasets = <<>> /\ errors = <<>>
    /\ fullResult = NotRun
    /\ met = [i \in Ids |-> 0] /\ parsed = [i \in Ids |-> 0] /\ order = <<>>

\* launch, new_page, goto, wait_for_selector, menu_items.all(): the page
\* loads and shows its container, with some number of menu items.
FullLoad ==
    /\ fpc = "start"
    /\ \E n \in 0..MaxTabs : tabsLeft' = n
    /\ fpc' = "tabs"
    /\ UNCHANGED <<seen_ids, datasets, errors, fullResult, met, parsed, order, notFullVars>>

\* The page does not load, or the container never shows: the exception
\* leaves the function (after browser.close()).
FullLoadFails ==
    /\ fpc = "start"
    /\ fpc' = "raised"
    /\ fullResult' = PlaywrightError
    /\ UNCHANGED <<tabsLeft, seen_ids, datasets, errors, met, parsed, order, notFullVars>>

\* One menu item: item.click(), wait_for_timeout(300), page.content(), and
\* the loop over the fragments of the page as rendered then.
FullTab ==
    /\ fpc = "tabs" /\ tabsLeft > 0
    /\ \E page \in TabPages :
          LET st == TabLoop(page, [seen_ids |-> seen_ids, datasets |-> datasets,
                                   errors |-> errors, met |-> met, parsed |-> parsed,
                                   order |-> order,
                                   raised |-> <<>>])
          IN  /\ seen_ids' = st.seen_ids
              /\ datasets' = st.datasets
              /\ errors' = st.errors
              /\ met' = st.met
              /\ parsed' = st.parsed
              /\ order' = st.order
              /\ IF st.raised = <<>>
                 THEN /\ tabsLeft' = tabsLeft - 1
                      /\ UNCHANGED <<fpc, fullResult>>
                 ELSE /\ fpc' = "raised"
                      /\ fullResult' = The(st.raised)
                      /\ UNCHANGED tabsLeft
    /\ UNCHANGED notFullVars

\* A click or the read of the page fails.  FullTabFailsWithPartialResult is
\* the step as it would be if the function then returned what it had collected.
FullTabFailsWithPartialResult ==
    /\ fpc = "tabs" /\ tabsLeft > 0
    /\ fpc' = "done"
    /\ fullResult' = Returned(ETSResult(datasets, errors))
    /\ UNCHANGED <<tabsLeft, seen_ids, datasets, errors, met, parsed, order, notFullVars>>

FullTabFails ==
    /\ fpc = "tabs" /\ tabsLeft > 0
    /\ fpc' = "raised"
    /\ fullResult' = PlaywrightError
    /\ UNCHANGED <<tabsLeft, seen_ids, datasets, errors, met, parsed, order, notFullVars>>

\* return ETSResult(datasets=datasets, errors=errors)
FullReturn ==
    /\ fpc = "tabs" /\ tabsLeft = 0
    /\ fpc' = "done"
    /\ fullResult' = Returned(ETSResult(datasets, errors))
    /\ UNCHANGED <<tabsLeft, seen_ids, datasets, errors, met, parsed, order, notFullVars>>

FullNext == FullLoad \/ FullLoadFails \/ FullTab \/ FullTabFails \/ FullReturn

ResultIds(result) ==
    [i \in 1..Len(result.datasets) |-> result.datasets[i].dataset_id]
    \o [i \in 1..Len(result.errors) |-> result.errors[i].dataset_id]
NoRepeats(s) == \A i, j \in 1..Len(s) : s[i] = s[j] => i = j

\* C6: in full mode every identifier is parsed at most once over the whole
\* traversal, however often it is met, and the result returned holds no
\* identifier twice across datasets and errors together.
C6_ParsedAtMostOnce ==
    /\ \A i \in Ids : parsed[i] <= 1
    /\ \A i \in Ids : parsed[i] = 1 <=> i \in seen_ids
    /\ fpc = "done" =>
          /\ fullResult.kind = "ok"
          /\ NoRepeats(ResultIds(fullResult.value))
          /\ Range(ResultIds(fullResult.value)) = seen_ids

\* An identifier was met under two menu items (or twice on a page), first as a
\* fragment that fails to parse, and the traversal returned.
C6_Witness ==
    /\ fpc = "done"
    /\ \E i \in Ids : met[i] >= 2 /\ parsed[i] = 1
                      /\ \E k \in 1..Len(errors) : errors[k].dataset_id = i
(***************************************************************************)
(* archive.py: the archive accessor                                        *)
(* Archive bytes are [zip, entries]: zip says whether they are a zip file   *)
(* at all, entries is the list of its members (ZipFile.infolist()), each    *)
(* [filename, content] with content the member's decompressed bytes.        *)
(* The file system is [dirs, files, cloud, fsspec]: the local directories,  *)
(* the local files with their content, the objects of the remote store and  *)
(* whether the fsspec package can be imported.                              *)
(***************************************************************************)
MaxEntries == 2

LowerChar(c) ==
    CASE c = "A" -> "a" [] c = "B" -> "b" [] c = "C" -> "c" [] c = "D" -> "d" [] c = "E" -> "e"
      [] c = "F" -> "f" [] c = "G" -> "g" [] c = "H" -> "h" [] c = "I" -> "i" [] c = "J" -> "j"
      [] c = "K" -> "k" [] c = "L" -> "l" [] c = "M" -> "m" [] c = "N" -> "n" [] c = "O" -> "o"
      [] c = "P" -> "p" [] c = "Q" -> "q" [] c = "R" -> "r" [] c = "S" -> "s" [] c = "T" -> "t"
      [] c = "U" -> "u" [] c = "V" -> "v" [] c = "W" -> "w" [] c = "X" -> "x" [] c = "Y" -> "y"
      [] c = "Z" -> "z"
      [] OTHER -> c
LowerText(s) == [i \in 1..Len(s) |-> LowerChar(s[i])]

\* s.rsplit(c, 1)[-1]: what follows the last c, the whole of s without any.
RECURSIVE AfterLast(_, _)
AfterLast(s, c) ==
    IF c \notin Range(s) THEN s
    ELSE AfterLast(SubSeq(s, (CHOOSE k \in 1..Len(s) : s[k] = c) + 1, Len(s)), c)

\* s.rstrip("/")
RECURSIVE RStripSlash(_)
RStripSlash(s) ==
    IF s # <<>> /\ s[Len(s)] = "/" THEN RStripSlash(SubSeq(s, 1, Len(s) - 1)) ELSE s

StartsWith(s, prefix) == Len(s) >= Len(prefix) /\ SubSeq(s, 1, Len(prefix)) = prefix

_is_cloud_path(path) ==
    Contains(path, <<":", "/", "/">>) /\ ~StartsWith(path, <<"f", "i", "l", "e", ":", "/", "/">>)

_get_file_type(filename) ==
    LET ext == IF "." \in Range(filename) THEN LowerText(AfterLast(filename, ".")) ELSE <<>>
    IN  IF ext # LowerText(filename) THEN ext ELSE <<>>

\* ZipInfo.is_dir()
IsDir(info) == info.filename # <<>> /\ info.filename[Len(info.filename)] = "/"

BadZipFile == [kind |-> "BadZipFile"]
ImportError == [kind |-> "ImportError"]
OSError == [kind |-> "OSError"]

ArchiveFile(name, size, file_type) == [name |-> name, size |-> size, file_type |-> file_type]

RECURSIVE ListLoop(_)
ListLoop(infos) ==
    IF infos = <<>> THEN <<>>
    ELSE LET info == Head(infos)
         IN  (IF IsDir(info) THEN <<>>
              ELSE <<ArchiveFile(AfterLast(info.filename, "/"),
                                 Len(info.content),
                                 _get_file_type(info.filename))>>)
             \o ListLoop(Tail(infos))

list_files_from_bytes(data) ==
    IF ~data.zip THEN BadZipFile ELSE Returned(ListLoop(data.entries))

\* fnmatch.fnmatchcase for patterns of literals, "?" and "*" (POSIX: normcase
\* changes nothing).
RECURSIVE fnmatch(_, _)
fnmatch(name, pat) ==
    IF pat = <<>> THEN name = <<>>
    ELSE IF Head(pat) = "*"
         THEN fnmatch(name, Tail(pat)) \/ (name # <<>> /\ fnmatch(Tail(name), pat))
    ELSE IF name = <<>> THEN FALSE
    ELSE (Head(pat) = "?" \/ Head(pat) = Head(name)) /\ fnmatch(Tail(name), Tail(pat))

\* z.read(name): the member the name maps to, the last one of that name.
ZipRead(entries, name) ==
    LET i == CHOOSE k \in 1..Len(entries) :
                 entries[k].filename = name
                 /\ \A j \in (k + 1)..Len(entries) : entries[j].filename # name
    IN  entries[i].content

\* str(Path(s)) and str(Path(s) / name) for the paths used here (no "//",
\* no "." or ".." components): the empty path is the current directory.
PathStr(s) == IF s = <<>> THEN <<".">> ELSE s
PathJoin(s, name) == IF PathStr(s) = <<".">> THEN name ELSE s \o <<"/">> \o name

\* The path and the directories above it.
PathAndParents(path) ==
    {SubSeq(path, 1, i - 1) : i \in {k \in 2..Len(path) : path[k] = "/"}} \cup {path}

\* Path(p).mkdir(parents=True, exist_ok=True): fails when the path or one
\* above it is a file.
MkdirFails(fs, path) == \E q \in PathAndParents(path) : q \in DOMAIN fs.files
Mkdir(fs, path) ==
    IF path = <<".">> THEN fs ELSE [fs EXCEPT !.dirs = @ \cup PathAndParents(path)]

\* The directory a local path lies in.
RECURSIVE DirName(_)
DirName(path) ==
    IF "/" \notin Range(path) THEN <<".">>
    ELSE IF path[Len(path)] = "/" THEN RStripSlash(path)
    ELSE DirName(SubSeq(path, 1, Len(path) - 1))
DirExists(fs, d) == d = <<".">> \/ d \in fs.dirs

\* with _open_for_write(path) as f: f.write(data).  A remote path needs
\* fsspec; a local one needs its directory and must not be a directory.
WriteFails(fs, path) ==
    IF _is_cloud_path(path) THEN ~fs.fsspec
    ELSE path \in fs.dirs \/ ~DirExists(fs, DirName(path)) \/ path = <<>>
WriteError(fs, path) == IF _is_cloud_path(path) THEN ImportError ELSE OSError
Write(fs, path, content) ==
    IF _is_cloud_path(path)
    THEN [fs EXCEPT !.cloud = (path :> content) @@ @]
    ELSE [fs EXCEPT !.files = (path :> content) @@ @]

\* The loop of extract_files_from_bytes.  st is [fs, extracted, raised].
RECURSIVE ExtractLoop(_, _, _, _, _)
ExtractLoop(infos, entries, pattern, output_str, st) ==
    IF infos = <<>> THEN st
    ELSE LET info == Head(infos)
             basename == AfterLast(info.filename, "/")
             cloud == _is_cloud_path(output_str)
             out_path == IF cloud THEN output_str \o <<"/">> \o basename
                         ELSE PathJoin(output_str, basename)
             fs1 == IF cloud THEN st.fs ELSE Mkdir(st.fs, PathStr(output_str))
         IN  IF IsDir(info) \/ ~fnmatch(basename, pattern)
             THEN ExtractLoop(Tail(infos), entries, pattern, output_str, st)
             ELSE IF ~cloud /\ MkdirFails(st.fs, PathStr(output_str))
             THEN [st EXCEPT !.raised = <<OSError>>]
             ELSE IF WriteFails(fs1, out_path)
             THEN [st EXCEPT !.fs = fs1, !.raised = <<WriteError(fs1, out_path)>>]
             ELSE ExtractLoop(Tail(infos), entries, pattern, output_str,
                              [st EXCEPT !.fs = Write(fs1, out_path,
                                                      ZipRead(entries, info.filename)),
                                         !.extracted = Append(@, out_path)])

\* extract_files_from_bytes as it would be if it made the output directory
\* before looking at the members.
extract_files_mkdir_first(data, pattern, output_dir, fs) ==
    LET output_str == RStripSlash(output_dir)
        fs0 == IF _is_cloud_path(output_str) \/ MkdirFails(fs, PathStr(output_str))
               THEN fs ELSE Mkdir(fs, PathStr(output_str))
        st == ExtractLoop(data.entries, data.entries, pattern, output_str,
                          [fs |-> fs0, extracted |-> <<>>, raised |-> <<>>])
    IN  IF ~data.zip THEN [result |-> BadZipFile, fs |-> fs]
        ELSE [result |-> IF st.raised # <<>> THEN The(st.raised) ELSE Returned(st.extracted),
              fs |-> st.fs]

\* The result (a list of paths, or the exception) and the file system after.
extract_files_from_bytes(data, pattern, output_dir, fs) ==
    LET output_str == RStripSlash(output_dir)
        st == ExtractLoop(data.entries, data.entries, pattern, output_str,
                          [fs |-> fs, extracted |-> <<>>, raised |-> <<>>])
    IN  IF ~data.zip THEN [result |-> BadZipFile, fs |-> fs]
        ELSE [result |-> IF st.raised # <<>> THEN The(st.raised) ELSE Returned(st.extracted),
              fs |-> st.fs]

\* Inputs of the archive accessor.
FileNames == {
    <<"d", "a", "t", "a", ".", "c", "s", "v">>,            \* "data.csv"
    <<"a", "/", "x", ".", "c", "s", "v">>,            \* "a/x.csv"
    <<"b", "/", "x", ".", "c", "s", "v">>,            \* "b/x.csv"
    <<"v", "1", ".", "0", "/", "R", "E", "A", "D", "M", "E">>,            \* "v1.0/README"
    <<"r", "e", "p", "o", "r", "t", ".", "P", "D", "F">>,            \* "report.PDF"
    <<".", "g", "i", "t", "i", "g", "n", "o", "r", "e">>,            \* ".gitignore"
    <<"R", "E", "A", "D", "M", "E">>             \* "README"
}
DirectoryEntryName == <<"d", "o", "c", "s", "/">>     \* "docs/"
EntryContents == {<<65>>, <<66, 66>>}
Entries ==
    [filename : FileNames, content : EntryContents] \cup {[filename |-> DirectoryEntryName, content |-> <<>>]}
\* Zip files whose members have pairwise distinct names, and bytes that are
\* no zip file.
DistinctNames(e) == \A i, j \in 1..Len(e) : e[i].filename = e[j].filename => i = j
ArchiveBytes ==
    {[zip |-> TRUE, entries |-> e] : e \in {x \in SeqsUpTo(Entries, MaxEntries) : DistinctNames(x)}}
    \cup {[zip |-> FALSE, entries |-> <<>>]}

Patterns == {
    <<"*", ".", "c", "s", "v">>,            \* "*.csv"
    <<"x", ".", "c", "s", "v">>,            \* "x.csv"
    <<"*">>,            \* "*"
    <<"*", ".", "p", "d", "f">>,            \* "*.pdf"
    <<"R", "E", "A", "D", "?", "?">>             \* "READ??"
}
OutputDirs == {
    <<"o", "u", "t">>,            \* "out"
    <<"o", "u", "t", "/">>,            \* "out/"
    <<"n", "e", "w", "/", "d", "i", "r">>,            \* "new/dir"
    <<"s", "3", ":", "/", "/", "b", "u", "c", "k", "e", "t", "/", "d", "a", "t", "a", "/">>,            \* "s3://bucket/data/"
    <<".">>             \* "."
}
NoFiles == [x \in {} |-> <<>>]
FileSystems == {
    [dirs |-> {}, files |-> NoFiles, cloud |-> NoFiles, fsspec |-> TRUE],
    [dirs |-> {}, files |-> NoFiles, cloud |-> NoFiles, fsspec |-> FALSE],
    [dirs |-> {<<"o", "u", "t">>}, files |-> (<<"o", "u", "t", "/", "x", ".", "c", "s", "v">> :> <<0>>), cloud |-> NoFiles, fsspec |-> TRUE],
    [dirs |-> {}, files |-> (<<"n", "e", "w">> :> <<0>>), cloud |-> NoFiles, fsspec |-> TRUE]
}

ArchiveInit ==
    /\ blob \in ArchiveBytes
    /\ disk \in FileSystems /\ before = disk
    /\ listed = NotRun /\ xresult = NotRun /\ xargs = <<>>
ArchiveIdle ==
    /\ blob = <<>> /\ listed = NotRun /\ xresult = NotRun /\ xargs = <<>>
    /\ disk = <<>> /\ before = <<>>

ListFiles ==
    /\ listed = NotRun
    /\ listed' = list_files_from_bytes(blob)
    /\ UNCHANGED <<blob, xargs, xresult, fsVars, notArchiveVars>>

ExtractFiles ==
    /\ xresult = NotRun
    /\ \E pattern \in Patterns, output_dir \in OutputDirs :
          LET r == extract_files_from_bytes(blob, pattern, output_dir, disk)
          IN  /\ xargs' = [pattern |-> pattern, output_dir |-> output_dir]
              /\ xresult' = r.result
              /\ before' = disk
              /\ disk' = r.fs
    /\ UNCHANGED <<blob, listed, notArchiveVars>>

ArchiveNext == ListFiles \/ ExtractFiles

(***************************************************************************)
(* Claims about the archive accessor                                       *)
(***************************************************************************)
Files(d) == SelectSeq(d.entries, LAMBDA e : ~IsDir(e))
\* The position of the last c in s, 0 when there is none.
LastIndex(s, c) ==
    IF c \notin Range(s) THEN 0
    ELSE CHOOSE k \in 1..Len(s) : s[k] = c /\ \A j \in (k + 1)..Len(s) : s[j] # c
Basename(filename) == SubSeq(filename, LastIndex(filename, "/") + 1, Len(filename))
\* The lowercase characters after the last "." of the basename, "" without one.
ExpectedFileType(basename) ==
    IF "." \notin Range(basename) THEN <<>>
    ELSE LowerText(SubSeq(basename, LastIndex(basename, ".") + 1, Len(basename)))

\* C5: the listing holds one ArchiveFile per non-directory entry, in archive
\* order, with the entry's basename, its uncompressed length, and the
\* lowercase extension of the basename ("" when the basename has no ".").
C5_ListsEveryFile ==
    (listed # NotRun /\ blob.zip) =>
        /\ listed.kind = "ok"
        /\ listed.value =
              [i \in 1..Len(Files(blob)) |->
                  [name |-> Basename(Files(blob)[i].filename),
                   size |-> Len(Files(blob)[i].content),
                   file_type |-> ExpectedFileType(Basename(Files(blob)[i].filename))]]

Extracted == xresult # NotRun /\ xresult.kind = "ok"
Matching(d, pattern) ==
    SelectSeq(Files(d), LAMBDA e : fnmatch(Basename(e.filename), pattern))
Stored(f, path) == IF _is_cloud_path(path) THEN f.cloud ELSE f.files
Exists(f, path) == path \in DOMAIN Stored(f, path)

\* C3: after an extraction every returned path exists and holds exactly the
\* bytes of the entry that produced it (also when two matching entries share
\* a basename), and nothing else was written.
C3_RoundTrip ==
    Extracted =>
        LET m == Matching(blob, xargs.pattern)
        IN  /\ Len(xresult.value) = Len(m)
            /\ \A i \in 1..Len(m) :
                  /\ Exists(disk, xresult.value[i])
                  /\ Stored(disk, xresult.value[i])[xresult.value[i]] = m[i].content
            /\ \A p \in DOMAIN disk.files :
                  p \in Range(xresult.value)
                  \/ (p \in DOMAIN before.files /\ disk.files[p] = before.files[p])
            /\ \A p \in DOMAIN disk.cloud :
                  p \in Range(xresult.value)
                  \/ (p \in DOMAIN before.cloud /\ disk.cloud[p] = before.cloud[p])

\* C9: an extraction whose pattern matches no file returns the empty list,
\* does not raise, writes nothing and creates no directory.
C9_NoMatchNoEffect ==
    (xresult # NotRun /\ blob.zip /\ Matching(blob, xargs.pattern) = <<>>) =>
        /\ xresult = Returned(<<>>)
        /\ disk = before

\* An archive with files, none of them matching, was extracted towards a
\* local directory that did not exist.
C9_Witness ==
    /\ xresult # NotRun /\ blob.zip
    /\ Files(blob) # <<>>
    /\ Matching(blob, xargs.pattern) = <<>>
    /\ xargs.output_dir = <<"n", "e", "w", "/", "d", "i", "r">>
    /\ <<"n", "e", "w", "/", "d", "i", "r">> \notin before.dirs

(***************************************************************************)
(* scraper.py: the Dataset facade                                          *)
(* url(), files(), download() and extract() are coroutines: each runs       *)
(* without interruption up to its next request (resolve_download_url,       *)
(* fetch_archive) and resumes when the answer arrives.  What the resolver   *)
(* and the fetcher answer is the network's choice, request by request.      *)
(* Archive bytes are sequences of byte values.                              *)
(***************************************************************************)
MaxCalls == 3

Callers == {"caller1", "caller2"}

NoUrlMessage == <<"No", "download", "URL", "available", "for", "this", "dataset">>

\* if self._cached_archive_url is None / if self._cached_archive_bytes is None,
\* and the second test as it would be if it never found the slot set.
UrlIsCached(slot) == slot # None
BytesNeverCached(slot) == FALSE
BytesAreCached(slot) == slot # None

\* for link in self.links: if link.label == "Direct download": the first such
\* link at position from or later, 0 when there is none.  NextLinkAnyLabel is
\* the loop as it would be without the test of the label.
NextLinkAnyLabel(links, from) == IF from <= Len(links) THEN from ELSE 0
NextDownloadLink(links, from) ==
    IF \E i \in from..Len(links) : links[i].label = "Direct download"
    THEN CHOOSE i \in from..Len(links) :
             /\ links[i].label = "Direct download"
             /\ \A j \in from..(i - 1) : links[j].label # "Direct download"
    ELSE 0

\* The characters of a dataset_id (for f"{self.dataset_id}.zip").
IdText(dataset_id) ==
    CASE dataset_id = "1098253" -> <<"1", "0", "9", "8", "2", "5", "3">>
      [] dataset_id = "1087604" -> <<"1", "0", "8", "7", "6", "0", "4">>
      [] OTHER -> <<>>

\* What the fetcher may answer, and the zip file ZipFile() reads from it.
RawA == <<80, 75, 1>>
RawB == <<80, 75, 2>>
RawBodies == {RawA, RawB, <<>>}
Unzip(raw) ==
    CASE raw = RawA -> [zip |-> TRUE,
                        entries |-> <<[filename |-> <<"d", "a", "t", "a", ".", "c", "s", "v">>, content |-> <<65>>]>>]
      [] raw = RawB -> [zip |-> TRUE,
                        entries |-> <<[filename |-> <<"a", "/", "x", ".", "c", "s", "v">>, content |-> <<65>>],
                                      [filename |-> <<"R", "E", "A", "D", "M", "E">>, content |-> <<66, 66>>]>>]
      [] OTHER -> [zip |-> FALSE, entries |-> <<>>]
\* What the resolver may answer.
ArchiveUrls == {"https://sdi.eea.europa.eu/s/a/download", "https://sdi.eea.europa.eu/s/b/download"}

\* Path(path).is_dir()
IsLocalDir(fs, path) == PathStr(path) = <<".">> \/ PathStr(path) \in fs.dirs
EndsWithSlash(path_str) == path_str # <<>> /\ path_str[Len(path_str)] = "/"

\* The path download() writes to.
FinalPath(dataset_id, path, fs) ==
    IF EndsWithSlash(path) \/ IsLocalDir(fs, path)
    THEN RStripSlash(path) \o <<"/">> \o IdText(dataset_id) \o <<".", "z", "i", "p">>
    ELSE path

\* download() once the bytes are there: the result and the file system after.
\* download_to_directory_only is download as it would be if it always took
\* the destination for a directory.
download_to_directory_only(dataset_id, raw, path, fs) ==
    LET path_str == RStripSlash(path) \o <<"/">> \o IdText(dataset_id) \o <<".", "z", "i", "p">>
    IN  IF WriteFails(fs, path_str) THEN [result |-> WriteError(fs, path_str), fs |-> fs]
        ELSE [result |-> Returned(path_str), fs |-> Write(fs, path_str, raw)]

download(dataset_id, raw, path, fs) ==
    LET path_str == FinalPath(dataset_id, path, fs)
    IN  IF WriteFails(fs, path_str) THEN [result |-> WriteError(fs, path_str), fs |-> fs]
        ELSE [result |-> Returned(path_str), fs |-> Write(fs, path_str, raw)]

\* The part of files(), download() and extract() that follows
\* `data = await self._get_archive_bytes()`.
Operate(op, arg, raw, dataset_id, fs) ==
    CASE op = "files" -> [result |-> list_files_from_bytes(Unzip(raw)), fs |-> fs]
      [] op = "download" -> download(dataset_id, raw, arg, fs)
      [] op = "extract" ->
            extract_files_from_bytes(Unzip(raw), arg.pattern, arg.output_dir, fs)

DownloadPaths == {
    <<"o", "u", "t">>,            \* "out"
    <<"o", "u", "t", "/">>,            \* "out/"
    <<"o", "u", "t", "/", "/">>,            \* "out//"
    <<"a", "r", "c", "h", "i", "v", "e", ".", "z", "i", "p">>,            \* "archive.zip"
    <<"n", "e", "w", "/", "a", "r", "c", "h", "i", "v", "e", ".", "z", "i", "p">>,            \* "new/archive.zip"
    <<"s", "3", ":", "/", "/", "b", "u", "c", "k", "e", "t", "/", "d", "a", "t", "a", "/">>,            \* "s3://bucket/data/"
    <<"s", "3", ":", "/", "/", "b", "u", "c", "k", "e", "t", "/", "a", ".", "z", "i", "p">>,            \* "s3://bucket/a.zip"
    <<".">>
}
ExtractArgs == {
    [pattern |-> <<"*", ".", "c", "s", "v">>, output_dir |-> <<"o", "u", "t">>],
    [pattern |-> <<"*", ".", "p", "d", "f">>, output_dir |-> <<"n", "e", "w", "/", "d", "i", "r">>],
    [pattern |-> <<"*", ".", "c", "s", "v">>, output_dir |-> <<"n", "e", "w", "/", "d", "i", "r">>]
}
Operations ==
    {[op |-> "url", arg |-> <<>>], [op |-> "files", arg |-> <<>>]}
    \cup {[op |-> "download", arg |-> a] : a \in DownloadPaths}
    \cup {[op |-> "extract", arg |-> a] : a \in ExtractArgs}

\* The Datasets the parser returns: for complete fragments with a factsheet,
\* with or without a "Direct download" link and a link of another label.
ViewerAnchor == [label |-> "Data viewer", href |-> "https://sdi.eea.europa.eu/view"]
DatasetAnchors == {
    <<FactsheetAnchor>>,
    <<DownloadAnchor, FactsheetAnchor>>,
    <<ViewerAnchor, FactsheetAnchor>>,
    <<ViewerAnchor, DownloadAnchor, FactsheetAnchor>>,
    <<DownloadAnchor, FactsheetAnchor, ViewerAnchor>>
}
DatasetInstances ==
    {_parse_accordion([id |-> i, title |-> FullTitle,
                       content |-> <<[strongs |-> GoodStrongs, anchors |-> a]>>]).value :
        i \in Ids, a \in DatasetAnchors}
DatasetDisks == {f \in FileSystems : DOMAIN f.files = {} \/ f.dirs # {}}

Call(op, arg, pc, link, url, result, fsBefore) ==
    [op |-> op, arg |-> arg, pc |-> pc, link |-> link, url |-> url, result |-> result,
     fsBefore |-> fsBefore]
NoCall(f) == Call("none", <<>>, "idle", 0, "", NotRun, f)

DatasetInit ==
    /\ dset \in DatasetInstances
    /\ _cached_archive_url = None /\ _cached_archive_bytes = None
    /\ disk \in DatasetDisks
    /\ calls = [t \in Callers |-> NoCall(disk)]
    /\ ncalls = 0
    /\ resolves = 0 /\ fetches = 0 /\ pages = {} /\ urls = {} /\ used = {}
DatasetIdle ==
    /\ dset = <<>> /\ _cached_archive_url = None /\ _cached_archive_bytes = None
    /\ calls = <<>> /\ ncalls = 0
    /\ resolves = 0 /\ fetches = 0 /\ pages = {} /\ urls = {} /\ used = {}

InFlight(t) == calls[t].pc \in {"resolving", "fetching"}

\* The call of caller t ends with a result (a value or an exception).
Ends(t, c, result) == calls' = [calls EXCEPT ![t] = [c EXCEPT !.pc = "done", !.result = result]]
\* ... suspends in resolve_download_url(link.url) for the link at position i.
AwaitsResolve(t, c, i) ==
    /\ calls' = [calls EXCEPT ![t] = [c EXCEPT !.pc = "resolving", !.link = i]]
    /\ pages' = pages \cup {dset.links[i].url}
\* ... suspends in fetch_archive(url).
AwaitsFetch(t, c, url) ==
    /\ calls' = [calls EXCEPT ![t] = [c EXCEPT !.pc = "fetching", !.url = url]]
    /\ urls' = urls \cup {url}
\* ... has the bytes and does its work on them.
Completes(t, c, raw) ==
    LET r == Operate(c.op, c.arg, raw, dset.dataset_id, disk)
    IN  /\ Ends(t, c, r.result)
        /\ disk' = r.fs
        /\ used' = used \cup {raw}

\* A caller calls url(), files(), download(path) or extract(pattern, dir): the
\* code up to the first request, or to the end when the slots are set.
StartCall(t, o) ==
    /\ ~InFlight(t)
    /\ ncalls < MaxCalls
    /\ ncalls' = ncalls + 1
    /\ LET c == Call(o.op, o.arg, "idle", 0, "", NotRun, disk)
           i == NextDownloadLink(dset.links, 1)
       IN  IF o.op = "url"
           THEN IF UrlIsCached(_cached_archive_url)
                THEN /\ Ends(t, c, Returned(_cached_archive_url))
                     /\ urls' = urls \cup {The(_cached_archive_url)}
                     /\ UNCHANGED <<pages, disk, used>>
                ELSE IF i = 0
                THEN Ends(t, c, Returned(None)) /\ UNCHANGED <<pages, urls, disk, used>>
                ELSE AwaitsResolve(t, c, i) /\ UNCHANGED <<urls, disk, used>>
           ELSE IF BytesAreCached(_cached_archive_bytes)
                THEN Completes(t, c, The(_cached_archive_bytes)) /\ UNCHANGED <<pages, urls>>
                ELSE IF UrlIsCached(_cached_archive_url)
                THEN AwaitsFetch(t, c, The(_cached_archive_url))
                     /\ UNCHANGED <<pages, disk, used>>
                ELSE IF i = 0
                THEN Ends(t, c, ValueError(NoUrlMessage))
                     /\ UNCHANGED <<pages, urls, disk, used>>
                ELSE AwaitsResolve(t, c, i) /\ UNCHANGED <<urls, disk, used>>
    /\ UNCHANGED <<dset, cacheVars, resolves, fetches, notDatasetVars>>

\* resolve_download_url answers: the slot is set, the loop over the links
\* goes on, url() returns the slot, and a caller that wants bytes asks for them.
ResolveAnswers(t, u) ==
    /\ calls[t].pc = "resolving"
    /\ LET c == calls[t]
           j == NextDownloadLink(dset.links, c.link + 1)
       IN  /\ _cached_archive_url' = Some(u)
           /\ resolves' = resolves + 1
           /\ IF j # 0 THEN AwaitsResolve(t, c, j) /\ UNCHANGED urls
              ELSE IF c.op = "url"
              THEN Ends(t, c, Returned(Some(u))) /\ urls' = urls \cup {u} /\ UNCHANGED pages
              ELSE AwaitsFetch(t, c, u) /\ UNCHANGED pages
    /\ UNCHANGED <<dset, _cached_archive_bytes, ncalls, fetches, used, disk, notDatasetVars>>
ResolveReturns(t) == \E u \in ArchiveUrls : ResolveAnswers(t, u)

\* resolve_download_url raises (status, or no labelled anchor on the page).
ResolveFails(t) ==
    /\ calls[t].pc = "resolving"
    /\ \E e \in {HTTPStatusError, ValueError(NotFoundMessage)} : Ends(t, calls[t], e)
    /\ UNCHANGED <<dset, cacheVars, ncalls, historyVars, disk, notDatasetVars>>

\* fetch_archive answers: the slot is set and the operation does its work.
\* FetchAnswersWithoutStore is the step as it would be if the bytes were
\* handed on without being kept.
FetchAnswersWithoutStore(t, raw) ==
    /\ calls[t].pc = "fetching"
    /\ Completes(t, calls[t], raw)
    /\ fetches' = fetches + 1
    /\ UNCHANGED <<dset, cacheVars, ncalls, resolves, pages, urls, notDatasetVars>>
FetchAnswers(t, raw) ==
    /\ calls[t].pc = "fetching"
    /\ _cached_archive_bytes' = Some(raw)
    /\ Completes(t, calls[t], raw)
    /\ fetches' = fetches + 1
    /\ UNCHANGED <<dset, _cached_archive_url, ncalls, resolves, pages, urls, notDatasetVars>>
FetchReturns(t) == \E raw \in RawBodies : FetchAnswers(t, raw)

\* fetch_archive raises.  FetchFailsClearingUrl is the step as it would be if
\* the failure reset the URL slot.
FetchFailsClearingUrl(t) ==
    /\ calls[t].pc = "fetching"
    /\ Ends(t, calls[t], HTTPStatusError)
    /\ _cached_archive_url' = None
    /\ UNCHANGED <<dset, _cached_archive_bytes, ncalls, historyVars, disk, notDatasetVars>>

FetchFails(t) ==
    /\ calls[t].pc = "fetching"
    /\ Ends(t, calls[t], HTTPStatusError)
    /\ UNCHANGED <<dset, cacheVars, ncalls, historyVars, disk, notDatasetVars>>

\* One caller, one call at a time.
SequentialCall == \E o \in Operations : StartCall("caller1", o)
Resolved == ResolveReturns("caller1")
ResolveFailed == ResolveFails("caller1")
Fetched == FetchReturns("caller1")
FetchFailed == FetchFails("caller1")
DatasetNext == SequentialCall \/ Resolved \/ ResolveFailed \/ Fetched \/ FetchFailed

\* Two callers on one fresh Dataset, interleaved at the requests, on a network
\* that does not change meanwhile: the resolver gives one URL for the page and
\* the fetcher one body for a URL.
ArchiveAt(url) == IF url = "https://sdi.eea.europa.eu/s/a/download" THEN RawA ELSE RawB
RaceOperations ==
    {o \in Operations : o.op \in {"url", "files"} \/ (o.op = "download" /\ o.arg = <<".">>)}
RaceInit ==
    /\ DatasetInit
    /\ dset.dataset_id = "1098253" /\ NextDownloadLink(dset.links, 1) # 0
RaceCall == \E t \in Callers, o \in RaceOperations : StartCall(t, o)
RaceResolved ==
    \E t \in Callers, u \in ArchiveUrls : (urls # {} => u \in urls) /\ ResolveAnswers(t, u)
RaceResolveFailed == \E t \in Callers : ResolveFails(t)
RaceFetched == \E t \in Callers : FetchAnswers(t, ArchiveAt(calls[t].url))
RaceFetchFailed == \E t \in Callers : FetchFails(t)
RaceNext == RaceCall \/ RaceResolved \/ RaceResolveFailed \/ RaceFetched \/ RaceFetchFailed

(***************************************************************************)
(* Claims about the Dataset facade                                         *)
(***************************************************************************)
\* C2: on one Dataset, the download page is resolved at most once and the
\* archive bytes are fetched at most once; once a slot is set no request of
\* its kind is made again, and every call returns or uses the same URL and
\* the same bytes.
C2_Memoized ==
    /\ resolves <= 1 /\ fetches <= 1
    /\ Cardinality(urls) <= 1 /\ Cardinality(used) <= 1
    /\ \A t \in DOMAIN calls :
          /\ calls[t].pc = "resolving" => resolves = 0
          /\ calls[t].pc = "fetching" => fetches = 0

\* A third call, an extraction, ended with files written from bytes that a
\* previous call had fetched from a URL that a call before had resolved.
C2_Witness ==
    /\ ncalls >= 3 /\ resolves = 1 /\ fetches = 1
    /\ calls["caller1"].op = "extract" /\ calls["caller1"].pc = "done"
    /\ calls["caller1"].link = 0 /\ calls["caller1"].url = ""
    /\ calls["caller1"].result.kind = "ok" /\ calls["caller1"].result.value # <<>>

DirectDownloadLinks(d) == {i \in 1..Len(d.links) : d.links[i].label = "Direct download"}
Finished(t, op) == calls[t].op = op /\ calls[t].pc = "done"

\* C7 as stated: url() fails on a Dataset without a link labeled "Direct
\* download"; with such a link, its URL is the page given to the resolver.
C7_UrlFailsWithoutLink ==
    \A t \in DOMAIN calls :
       /\ (Finished(t, "url") /\ DirectDownloadLinks(dset) = {}) => calls[t].result.kind # "ok"
       /\ pages \subseteq {dset.links[i].url : i \in DirectDownloadLinks(dset)}

\* C7: on a Dataset without a link labeled "Direct download", url() returns
\* None, files(), download() and extract() fail with "No download URL
\* available for this dataset", no page is resolved and nothing is written;
\* with such a link, its URL is the page given to the resolver.
C7_NoLinkNoUrl ==
    \A t \in DOMAIN calls :
       /\ DirectDownloadLinks(dset) = {} =>
             /\ ~InFlight(t)
             /\ Finished(t, "url") => calls[t].result = Returned(None)
             /\ (calls[t].pc = "done" /\ calls[t].op # "url") =>
                    /\ calls[t].result.kind = "ValueError"
                    /\ calls[t].result.message = NoUrlMessage
             /\ resolves = 0 /\ fetches = 0
             /\ disk = calls[t].fsBefore
       /\ pages \subseteq {dset.links[i].url : i \in DirectDownloadLinks(dset)}
       /\ calls[t].pc = "resolving" => pages # {}

\* url() has returned on a Dataset that has a link, but none labeled "Direct
\* download".
C7_Witness ==
    /\ DirectDownloadLinks(dset) = {} /\ dset.links # <<>>
    /\ Finished("caller1", "url")

\* The destination without its trailing separators.
TrimSeparators(dest) ==
    LET keep == {k \in 1..Len(dest) : dest[k] # "/"}
    IN  IF keep = {} THEN <<>> ELSE SubSeq(dest, 1, CHOOSE k \in keep : \A j \in keep : j <= k)
ZipName(d) == IdText(d.dataset_id) \o <<".", "z", "i", "p">>
ExpectedFinalPath(dest, f) ==
    IF dest[Len(dest)] = "/" \/ (~_is_cloud_path(dest) /\ DirExists(f, dest))
    THEN TrimSeparators(dest) \o <<"/">> \o ZipName(dset)
    ELSE dest

\* C8: download() writes nothing before the bytes are there nor when it
\* fails; when it returns, it returns the final path (the destination joined
\* with "{dataset_id}.zip" if the destination ends in a separator or is an
\* existing local directory, else the destination unchanged), and the file at
\* that path holds the archive bytes.
C8_DownloadFinalPath ==
    \A t \in DOMAIN calls :
       calls[t].op = "download" =>
          LET c == calls[t]
              final == ExpectedFinalPath(c.arg, c.fsBefore)
          IN  /\ (c.pc # "done" \/ c.result.kind # "ok") => disk = c.fsBefore
              /\ (c.pc = "done" /\ c.result.kind = "ok") =>
                    /\ c.result.value = final
                    /\ _cached_archive_bytes # None
                    /\ Exists(disk, final)
                    /\ Stored(disk, final)[final] = The(_cached_archive_bytes)
                    /\ \A p \in DOMAIN disk.files \ {final} :
                          p \in DOMAIN c.fsBefore.files /\ disk.files[p] = c.fsBefore.files[p]
                    /\ \A p \in DOMAIN disk.cloud \ {final} :
                          p \in DOMAIN c.fsBefore.cloud /\ disk.cloud[p] = c.fsBefore.cloud[p]

\* A download to an existing local directory named without a separator
\* returned, after a resolution and a fetch of its own.
C8_Witness ==
    /\ Finished("caller1", "download")
    /\ calls["caller1"].arg = <<"o", "u", "t">> /\ <<"o", "u", "t">> \in calls["caller1"].fsBefore.dirs
    /\ calls["caller1"].url # ""
    /\ calls["caller1"].result.kind = "ok"
    /\ calls["caller1"].result.value = <<"o", "u", "t">> \o <<"/">> \o ZipName(dset)

\* The directories a local path lies in, nearest last.
ParentDirs(path) == PathAndParents(path) \ {path}

\* C11: a download or an extraction towards a local destination whose parent
\* directories do not exist (and are no files) creates them and writes the
\* file(s): once the archive bytes are there (and, for an extraction, are a
\* zip file with a matching member), the call returns and the files exist.
C11_CreatesParents ==
    \A t \in DOMAIN calls :
       LET c == calls[t]
           target == IF c.op = "download" THEN c.arg ELSE c.arg.output_dir \o <<"/", "f">>
       IN  (/\ c.pc = "done" /\ c.op \in {"download", "extract"}
            /\ _cached_archive_bytes # None
            /\ ~_is_cloud_path(target) /\ ~EndsWithSlash(target)
            /\ target \notin c.fsBefore.dirs
            /\ ParentDirs(target) # {}
            /\ \A q \in ParentDirs(target) :
                  q \notin c.fsBefore.dirs /\ q \notin DOMAIN c.fsBefore.files
            /\ c.op = "extract" =>
                  /\ Unzip(The(_cached_archive_bytes)).zip
                  /\ Matching(Unzip(The(_cached_archive_bytes)), c.arg.pattern) # <<>>)
           => /\ c.result.kind = "ok"
              /\ ParentDirs(target) \subseteq disk.dirs
              /\ c.op = "download" => Exists(disk, c.arg)
              /\ c.op = "extract" => \A k \in 1..Len(c.result.value) :
                                         Exists(disk, c.result.value[k])

(***************************************************************************)
(* Claims about both aggregators                                           *)
(***************************************************************************)
\* C12: a document-level failure aborts the aggregation with an error.  In
\* simple mode a non-success status yields the status error; in full mode a
\* failure to load the page or to traverse a tab leaves the function with
\* the exception, and an ETSResult is returned only after every tab was
\* traversed: never one holding the records collected before the failure.
C12_FailureAborts ==
    /\ response = "error" => aggResult = HTTPStatusError
    /\ fpc = "raised" => fullResult.kind \in {"PlaywrightError", "RuntimeError"}
    /\ fullResult.kind = "ok" => fpc = "done" /\ tabsLeft = 0

\* The traversal of a later tab failed after an earlier tab gave a record.
C12_Witness ==
    /\ fpc = "raised" /\ fullResult = PlaywrightError
    /\ datasets # <<>> /\ tabsLeft > 0

DatasetIds(result) == [i \in 1..Len(result.datasets) |-> result.datasets[i].dataset_id]

\* C13: in either mode the datasets of a returned result hold no two records
\* with the same dataset_id, whatever the document (also a document in simple
\* mode with two fragments of one identifier).
C13_NoDuplicateRecords ==
    /\ aggResult.kind = "ok" => NoRepeats(DatasetIds(aggResult.value))
    /\ fullResult.kind = "ok" => NoRepeats(DatasetIds(fullResult.value))

ErrorIds(errs) == [i \in 1..Len(errs) |-> errs[i].dataset_id]
\* The members of s that are in S, in the order of s.
Restrict(s, S) == SelectSeq(s, LAMBDA x : x \in S)

\* C14: in full mode the datasets, and likewise the errors, stand in the
\* order in which their identifiers were first met over the traversal (tab
\* after tab, document order within a tab), and so does the result returned.
C14_FirstOccurrenceOrder ==
    LET dids == [i \in 1..Len(datasets) |-> datasets[i].dataset_id]
    IN  /\ dids = Restrict(order, Range(dids))
        /\ ErrorIds(errors) = Restrict(order, Range(ErrorIds(errors)))
        /\ fullResult.kind = "ok" => fullResult.value = ETSResult(datasets, errors)

\* The traversal returned two datasets; the first of them was met again after
\* it had been recorded.
C14_Witness ==
    /\ fpc = "done" /\ fullResult.kind = "ok"
    /\ DatasetIds(fullResult.value) = <<"1098253", "1087604">>
    /\ order = <<"1098253", "1087604">>
    /\ met["1098253"] >= 2

(***************************************************************************)
(* Claims about the links of a parsed Dataset                              *)
(***************************************************************************)
MaxLinkAnchors == 4

\* Complete fragments whose content area holds up to MaxLinkAnchors anchors.
LinkHrefs == {NoAttr, "https://sdi.eea.europa.eu/dl", "https://sdi.eea.europa.eu",
              "/datahub/relative"}
LinkAnchors == [label : Labels, href : LinkHrefs]
LinkFragments ==
    {[id |-> "1098253", title |-> FullTitle,
      content |-> <<[strongs |-> GoodStrongs, anchors |-> a]>>] :
        a \in SeqsUpTo(LinkAnchors, MaxLinkAnchors)}
LinksInit == frag \in LinkFragments /\ outcome = NotRun

\* The members of s without the repetitions: each at its first place.
RECURSIVE FirstOccurrences(_)
FirstOccurrences(s) ==
    IF s = <<>> THEN <<>>
    ELSE <<Head(s)>> \o FirstOccurrences(SelectSeq(Tail(s), LAMBDA x : x # Head(s)))

\* The hyperlinks of the content area other than the factsheet's.
OtherHyperlinks(f) ==
    SelectSeq(The(f.content).anchors,
              LAMBDA a : a.href # NoAttr /\ a.label # "Metadata Factsheet")
LastHref(hyperlinks, label) ==
    LET k == CHOOSE i \in 1..Len(hyperlinks) :
                 /\ hyperlinks[i].label = label
                 /\ \A j \in (i + 1)..Len(hyperlinks) : hyperlinks[j].label # label
    IN  hyperlinks[k].href

\* C15: the links of a parsed Dataset are the hyperlinks of the content area
\* other than "Metadata Factsheet", one Link per label, in the order of the
\* labels' first occurrences, each with the URL of the label's last hyperlink.
C15_LinksByFirstLabel ==
    (outcome.kind = "ok" /\ frag.content # <<>>) =>
        LET h == OtherHyperlinks(frag)
            labels == FirstOccurrences([i \in 1..Len(h) |-> h[i].label])
        IN  outcome.value.links =
                [k \in 1..Len(labels) |->
                    [label |-> labels[k], url |-> AnyUrl(LastHref(h, labels[k]))]]

\* A Dataset was parsed from a content area of four anchors in which the
\* first and the third share a label and differ in their href.
C15_Witness ==
    /\ outcome.kind = "ok" /\ frag.content # <<>>
    /\ Len(The(frag.content).anchors) = 4
    /\ The(frag.content).anchors[1].label = The(frag.content).anchors[3].label
    /\ The(frag.content).anchors[1].href # NoAttr
    /\ The(frag.content).anchors[3].href # NoAttr
    /\ The(frag.content).anchors[1].href # The(frag.content).anchors[3].href
    /\ Len(outcome.value.links) = 2
    /\ outcome.value.links[1].label = The(frag.content).anchors[1].label

\* The parser neither returns nor raises ValueError on the fragment.
Aborts(f) == _parse_accordion(f).kind \notin {"ok", "ValueError"}

\* C16: a fragment without a readable identifier is skipped in both modes.
\* A result holds one Dataset or ParseError per identified fragment (simple
\* mode) or per identifier met (full mode), every ParseError and every
\* Dataset carries an identifier, and only an identified fragment can make
\* the aggregation end with an exception of the parser.
C16_UnidentifiedSkipped ==
    /\ aggResult.kind = "ok" =>
          /\ \A i \in 1..Len(aggResult.value.errors) :
                aggResult.value.errors[i].dataset_id \in Ids
          /\ Range(DatasetIds(aggResult.value)) \subseteq Ids
          /\ Len(aggResult.value.datasets) + Len(aggResult.value.errors)
                = Len(Identified(doc))
    /\ (Aggregated /\ aggResult.kind # "ok") => \E i \in 1..Len(doc) :
                                                     doc[i].id # NoAttr /\ Aborts(doc[i])
    /\ Range(ErrorIds(errors)) \subseteq Ids
    /\ \A i \in 1..Len(datasets) : datasets[i].dataset_id \in Ids
    /\ Len(datasets) + Len(errors) <= Cardinality(seen_ids)
    /\ seen_ids \subseteq Ids
    /\ (fpc # "raised" \/ fullResult # RuntimeError) =>
          Len(datasets) + Len(errors) = Cardinality(seen_ids)

\* A document was aggregated that holds an identified fragment and a fragment
\* without identifier on which the parser raises ValueError; no error was
\* recorded.
C16_Witness ==
    /\ aggResult.kind = "ok" /\ aggResult.value.errors = <<>>
    /\ aggResult.value.datasets # <<>>
    /\ \E i \in 1..Len(doc) :
          doc[i].id = NoAttr /\ _parse_accordion(doc[i]).kind = "ValueError"

(***************************************************************************)
(* Claims about the cache slots of a Dataset                               *)
(***************************************************************************)
GotBytes(t) ==
    /\ calls[t].pc = "done" /\ calls[t].op \in {"files", "download", "extract"}
    /\ calls[t].result.kind \notin {"HTTPStatusError", "ValueError"}

\* C17: when two callers use the accessors of one fresh Dataset at once, on
\* a network that gives one body for a URL, every caller that gets bytes gets
\* the same bytes, the body at the resolved URL; once a fetch was answered
\* the bytes slot is set, and it holds those bytes and no others.
C17_BenignRace ==
    /\ Cardinality(used) <= 1 /\ Cardinality(urls) <= 1
    /\ \A raw \in used : \E u \in urls : raw = ArchiveAt(u)
    /\ fetches >= 1 => _cached_archive_bytes # None
    /\ \A t \in DOMAIN calls : GotBytes(t) => _cached_archive_bytes # None
    /\ _cached_archive_bytes # None => used = {The(_cached_archive_bytes)}
    /\ \A t \in DOMAIN calls :
          (GotBytes(t) /\ calls[t].op = "files") =>
              \E u \in urls : calls[t].result = list_files_from_bytes(Unzip(ArchiveAt(u)))

\* Both callers called files() on the fresh Dataset, both fetched the
\* archive, and both have their listing.
C17_Witness ==
    /\ fetches = 2 /\ ncalls = 2
    /\ \A t \in Callers : GotBytes(t) /\ calls[t].op = "files" /\ calls[t].url # ""

\* The call of t ends in this step with the failure of its request.
RequestFails(t) ==
    /\ InFlight(t) /\ calls'[t].pc = "done"
    /\ calls'[t].result.kind \in {"HTTPStatusError", "ValueError"}

SlotsFollowAnswers ==
    /\ _cached_archive_url # None <=> resolves >= 1
    /\ _cached_archive_bytes # None <=> fetches >= 1
    /\ _cached_archive_bytes # None => _cached_archive_url # None
    /\ \A t \in DOMAIN calls :
          /\ calls[t].pc = "resolving" => _cached_archive_url = None
          /\ calls[t].pc = "fetching" =>
                _cached_archive_url # None /\ _cached_archive_bytes = None
SlotsKeepTheirValue ==
    /\ _cached_archive_url # None => _cached_archive_url' = _cached_archive_url
    /\ _cached_archive_bytes # None => _cached_archive_bytes' = _cached_archive_bytes
    /\ \A t \in DOMAIN calls : RequestFails(t) => UNCHANGED cacheVars

\* C18: a slot is set exactly when a request of its kind was answered: a
\* failed request sets and clears nothing, so after a failed resolution both
\* slots are unset and after a failed fetch the URL slot is set and the bytes
\* slot is not; a call never resolves while the URL slot is set (it only
\* fetches); and a slot that is set keeps its value in every step.
C18_SlotsSetOnce == []SlotsFollowAnswers /\ [][SlotsKeepTheirValue]_vars

\* A call resolved the page, its fetch failed, and it ended with that error.
C18_Witness ==
    /\ Finished("caller1", "files") /\ calls["caller1"].result = HTTPStatusError
    /\ calls["caller1"].url # ""
    /\ _cached_archive_url = Some(calls["caller1"].url) /\ _cached_archive_bytes = None

(***************************************************************************)
(* Specifications, one per component                                       *)
(***************************************************************************)
ParseIdle == frag = <<>> /\ outcome = NotRun
AggIdle == doc = <<>> /\ aggResult = NotRun /\ response = "none"
ResolveIdle == html = <<>> /\ resolved = NotRun

\* The record parser on one fragment.
InitParse == ParseInit /\ AggIdle /\ ResolveIdle /\ FullIdle /\ ArchiveIdle /\ DatasetIdle
SpecParse == InitParse /\ [][ParseAccordion]_vars
\* The simple-mode aggregator on one document.
InitAgg == AggInit /\ ParseIdle /\ ResolveIdle /\ FullIdle /\ ArchiveIdle /\ DatasetIdle
SpecAgg == InitAgg /\ [][ParseAccordions \/ FetchDatasetsSimple]_vars
\* The download-URL resolver on one page.
InitResolve == ResolveInit /\ ParseIdle /\ AggIdle /\ FullIdle /\ ArchiveIdle /\ DatasetIdle
SpecResolve == InitResolve /\ [][ResolveFromHtml]_vars
\* The full-mode aggregator.
InitFull == FullInit /\ ParseIdle /\ AggIdle /\ ResolveIdle /\ ArchiveIdle /\ DatasetIdle
SpecFull == InitFull /\ [][FullNext]_vars
\* The archive accessor on one archive and one file system.
InitArchive == ArchiveInit /\ ParseIdle /\ AggIdle /\ ResolveIdle /\ FullIdle /\ DatasetIdle
SpecArchive == InitArchive /\ [][ArchiveNext]_vars
\* The record parser on complete fragments with many anchors.
InitLinks == LinksInit /\ AggIdle /\ ResolveIdle /\ FullIdle /\ ArchiveIdle /\ DatasetIdle
SpecLinks == InitLinks /\ [][ParseAccordion]_vars
\* Either aggregator on one page.
InitPage == InitAgg \/ InitFull
SpecPage == InitPage /\ [][ParseAccordions \/ FetchDatasetsSimple \/ FullNext]_vars
\* One Dataset used by two callers at once.
InitRace ==
    /\ RaceInit /\ ParseIdle /\ AggIdle /\ ResolveIdle /\ FullIdle
    /\ blob = <<>> /\ listed = NotRun /\ xresult = NotRun /\ xargs = <<>> /\ before = <<>>
SpecRace == InitRace /\ [][RaceNext]_vars
\* One Dataset used by one caller, call after call.
Init ==
    /\ DatasetInit /\ ParseIdle /\ AggIdle /\ ResolveIdle /\ FullIdle
    /\ blob = <<>> /\ listed = NotRun /\ xresult = NotRun /\ xargs = <<>> /\ before = <<>>
Next == DatasetNext
Spec == Init /\ [][Next]_vars
====
